---- MODULE Spec2Model ----
(***************************************************************************)
(* Model of backup.py: one Backup object per process (run), the persisted  *)
(* backup.ini record, the destination directory tree and the source tree.  *)
(* A path is a sequence of one-character strings, so that the archive name *)
(* derived from a path is computed the way str.replace computes it.        *)
(***************************************************************************)
EXTENDS Integers, Sequences, FiniteSets, TLC

\* ---------------------------------------------------------------- bounds
\* Days run from 0 to MaxDay; a run made on day d is labelled Labels[d + 1].
MaxDay == 1
\* Number of genuine tool errors the environment may inject in one behaviour.
MaxFails == 1

\* ------------------------------------------------------- program constants
\* self.last_date = None
NoDate == -1
\* self.last_backup_folder = None / self.this_backup_folder = None (falsy)
NoLabel == ""
\* self.backup = None (falsy, like the empty string)
NoPath == << >>
\* the generation name cleanup_drive never deletes
Pinned == "laptop"
\* the diagnostic pipe() tolerates: "Removing leading `/' from member names"
Notice == "notice"
\* any other line a tool writes to stderr
Other == "other"

\* ------------------------------------------------------------ source tree
D == <<"/", "d">>
A == <<"/", "d", "/", "a">>
H == <<"/", "d", "/", ".", "a">>
F == <<"/", "d", "/", "f">>
HF == <<"/", "d", "/", ".", "h">>
C == <<"/", "d", "/", "a", "/", "c">>
G == <<"/", "d", "/", "a", "/", "g">>
E == <<"/", "d", "/", "a", "/", "c", "/", "e">>
X == <<"/", "x">>
IndFile == <<"/", "e">>
Dest == <<"/", "b">>

\* posixpath.isdir on the source tree
SrcDirs == {D, A, H, C, E, X}
SrcFiles == {F, HF, G}
SrcEntries == SrcDirs \cup SrcFiles
\* the entries whose modification time varies between behaviours
Timed == {C, E, G}

IsPrefix(p, q) == Len(p) <= Len(q) /\ SubSeq(q, 1, Len(p)) = p

\* the last component of a path (what os.listdir returns for its parent)
RECURSIVE LastSlash(_, _)
LastSlash(p, i) == IF i = 0 THEN 0 ELSE IF p[i] = "/" THEN i ELSE LastSlash(p, i - 1)
BaseName(p) == SubSeq(p, LastSlash(p, Len(p)) + 1, Len(p))
Parent(p) == SubSeq(p, 1, LastSlash(p, Len(p)) - 1)

\* f'{path}/{local_path}'
Join(path, name) == path \o <<"/">> \o name

\* os.listdir(path): the names of the immediate entries, in no fixed order
Listdir(path) == {BaseName(e) : e \in {x \in SrcEntries : Parent(x) = path}}
IsDir(p) == p \in SrcDirs

\* every entry below path, at any depth
Descendants(path) == {e \in SrcEntries : Len(e) > Len(path) /\ IsPrefix(path \o <<"/">>, e)}

\* all orders in which a set can be listed
Perms(S) == {s \in [1..Cardinality(S) -> S] : \A x \in S : \E i \in 1..Cardinality(S) : s[i] = x}

\* the listing of path under a traversal order ord (a permutation of entries)
ListdirOrd(path, ord) == SelectSeq(ord, LAMBDA e : Parent(e) = path)

\* ----------------------------------------------------------------- dates
\* datetime.today().strftime("%Y%m%d") for the days of the model
Labels == <<"20240101", "20240102", "20240103", "20240104", "20240105", "20240106">>
strftime(day) == Labels[day + 1]
\* datetime.strptime(line, "%Y%m%d"): midnight of that day, in half days
strptime(label) == 2 * ((CHOOSE i \in 1..Len(Labels) : Labels[i] = label) - 1)

\* --------------------------------------------------------- archive naming
\* str.replace(ch, '')
Replace(s, ch) == SelectSeq(s, LAMBDA x : x # ch)
\* path.replace('/', '') then .replace('.', '')
BackupFileName(path) == Replace(Replace(path, "/"), ".")
Individual == <<"individual">>

\* ------------------------------------------------------- change detection
\* getmtime(local_file), in half days
MTime(mt, e) == IF e \in Timed THEN mt[e] ELSE 0

RECURSIVE CheckFolders(_, _, _, _, _)
RECURSIVE CheckLoop(_, _, _, _, _)
\* _check_folders without the recursive call: one level only
CheckLoopShallow(entries, m, since, mt, ord) ==
    IF entries = << >>
    THEN (IF since = NoDate THEN TRUE ELSE m)
    ELSE LET e == Head(entries) IN
         IF IsDir(e)
         THEN IF since = NoDate THEN TRUE
              ELSE IF MTime(mt, e) > since THEN TRUE
              ELSE CheckLoop(Tail(entries), m, since, mt, ord)
         ELSE CheckLoop(Tail(entries), m, since, mt, ord)
\* _check_folders without the test of self.last_date after the loop
CheckLoopNoFinalTest(entries, m, since, mt, ord) ==
    IF entries = << >>
    THEN m
    ELSE LET e == Head(entries) IN
         IF IsDir(e)
         THEN IF since = NoDate THEN TRUE
              ELSE IF MTime(mt, e) > since THEN TRUE
              ELSE CheckLoop(Tail(entries), CheckFolders(e, m, since, mt, ord), since, mt, ord)
         ELSE CheckLoop(Tail(entries), m, since, mt, ord)
\* the for loop of _check_folders over the remaining listing
CheckLoop(entries, m, since, mt, ord) ==
    IF entries = << >>
    THEN (IF since = NoDate THEN TRUE ELSE m)
    ELSE LET e == Head(entries) IN
         IF IsDir(e)
         THEN IF since = NoDate THEN TRUE
              ELSE IF MTime(mt, e) > since THEN TRUE
              ELSE CheckLoop(Tail(entries), CheckFolders(e, m, since, mt, ord), since, mt, ord)
         ELSE CheckLoop(Tail(entries), m, since, mt, ord)
\* self.modified after _check_folders(path) entered with self.modified = m
CheckFolders(path, m, since, mt, ord) ==
    IF m THEN m ELSE CheckLoop(ListdirOrd(path, ord), m, since, mt, ord)

\* --------------------------------------------------------------- executor
\* pipe(): raises PipeError when stderr is not empty and lacks the notice
PipeRaises(e) == e # {} /\ Notice \notin e

\* a file of the destination: [dir, base, ext, members]
FileAt(f, dir, base, ext) == {x \in f.files : x.dir = dir /\ x.base = base /\ x.ext = ext}
Has(f, dir, base, ext) == FileAt(f, dir, base, ext) # {}
Members(f, dir, base, ext) == IF Has(f, dir, base, ext)
                              THEN (CHOOSE x \in FileAt(f, dir, base, ext) : TRUE).members
                              ELSE {}
Put(f, dir, base, ext, mem) ==
    [f EXCEPT !.files = (@ \ FileAt(f, dir, base, ext))
                        \cup {[dir |-> dir, base |-> base, ext |-> ext, members |-> mem]}]
Drop(f, dir, base, ext) == [f EXCEPT !.files = @ \ FileAt(f, dir, base, ext)]

\* rm -r "<destination>/<d>"
RmR(f, d) == [f EXCEPT !.dirs = @ \ {d}, !.files = {x \in @ : x.dir # d}]
\* tar -rf "<gen>/<base>.tar" "<member>"
TarAppend(f, gen, base, member) == Put(f, gen, base, "tar", Members(f, gen, base, "tar") \cup {member})
\* gzip -c "<gen>/<base>.tar" > "<gen>/<base>.tar.gz"; the shell creates the
\* target before gzip runs, so a failing gzip leaves an empty target
Gzip(f, gen, base) == Put(f, gen, base, "targz", Members(f, gen, base, "tar"))
GzipFailed(f, gen, base) == IF gen \in f.dirs THEN Put(f, gen, base, "targz", {}) ELSE f
\* rm "<gen>/<base>.tar"
Rm(f, gen, base) == Drop(f, gen, base, "tar")
\* tar -czf "<gen>/<base>.tar.gz" "<path>"
TarCreate(f, gen, base, path) == Put(f, gen, base, "targz", {path})
\* mv "<from>/<base>.tar.gz" "<to>/"
Mv(f, from, to, base) == Put(Drop(f, from, base, "targz"), to, base, "targz",
                             Members(f, from, base, "targz"))

\* the stderr a command may produce: tar prints the notice whenever it stores
\* a member given by an absolute path; must = the command cannot succeed
Diags(isTar, must, budget) ==
    IF must THEN {{Other}}
    ELSE IF isTar
         THEN (IF budget THEN {{Notice}, {Notice, Other}, {Other}} ELSE {{Notice}})
         ELSE (IF budget THEN {{}, {Other}} ELSE {{}})

\* ------------------------------------------------------------------ state
VARIABLES
    ini,                \* the persisted backup.ini record
    fs,                 \* the destination: [isdir, dirs, plain, files]
    mtime,              \* modification times of the Timed source entries
    today,              \* the current day
    always, backup, base_folders, checked, excluded, individual,
    last_backup_folder, last_date, modified, normal, this_backup_folder,
    verbose,            \* the fields of the Backup object
    pc,                 \* position of the process
    idx,                \* index of the for loop in progress
    todo,               \* entries of the listing still to be visited
    b_no_tar,           \* local of _make_tarball
    err,                \* stderr of the last executed command
    fails,              \* genuine tool errors injected so far
    ops,                \* operations issued in this run, in order
    ini0, fs0,          \* record and destination when the run started
    fails0,             \* tool errors injected before the run started
    dryrun,             \* the process was started with -v
    visited,            \* the normal folders go() has handed to _backup
    outcome,            \* how the run ended
    persisted,          \* __del__ wrote the record in this run
    reported            \* the new folders printed by _check_new

fields == <<always, backup, base_folders, checked, excluded, individual,
            last_backup_folder, last_date, modified, normal, this_backup_folder, verbose>>
conf == <<always, base_folders, excluded, individual, normal>>
env == <<mtime, today>>
start == <<ini0, fs0, fails0, dryrun>>
vars == <<ini, fs, mtime, today, always, backup, base_folders, checked, excluded,
          individual, last_backup_folder, last_date, modified, normal,
          this_backup_folder, verbose, pc, idx, todo, b_no_tar, err, fails, ops,
          ini0, fs0, fails0, dryrun, visited, outcome, persisted, reported, visited>>

Range(s) == {s[i] : i \in 1..Len(s)}

\* ------------------------------------------------------------------- Init
\* destFirst: the [Backup folder] section stands before [Backup date]
NoRecord == [exists |-> FALSE, destFirst |-> FALSE,
             date |-> NoLabel, base |-> << >>, dest |-> NoPath,
             always |-> << >>, excluded |-> << >>, normal |-> << >>, individual |-> << >>]
\* the folders under the base folder, listed in one of the three sections or in none
ClassOf(cA, cH, c) == SelectSeq(<<A, H>>, LAMBDA p : (IF p = A THEN cA ELSE cH) = c)
\* a record as the user fills the template in before the first backup
UserRecord(dest, cA, cH, ind) ==
    [exists |-> TRUE, destFirst |-> FALSE,
     date |-> NoLabel, base |-> <<D, X>>, dest |-> dest,
     always |-> ClassOf(cA, cH, "always"), excluded |-> ClassOf(cA, cH, "excluded"),
     normal |-> ClassOf(cA, cH, "normal"), individual |-> ind]
\* a record of an earlier backup from which the user removed the destination
Undestined == [UserRecord(NoPath, "normal", "excluded", << >>) EXCEPT !.date = strftime(0)]
InitRecords ==
    {NoRecord, Undestined} \cup
    {UserRecord(dest, cA, cH, ind) : dest \in {NoPath, Dest},
                                     cA \in {"normal", "always", "excluded", "new"},
                                     cH \in {"normal", "excluded", "new"},
                                     ind \in {<< >>, <<IndFile>>}}
OldArchive == [dir |-> "old", base |-> BackupFileName(A), ext |-> "targz", members |-> {A}]
InitDest ==
    {[isdir |-> FALSE, dirs |-> {}, plain |-> {}, files |-> {}],
     [isdir |-> TRUE, dirs |-> {Pinned, "old"}, plain |-> {"note"}, files |-> {OldArchive}]}
\* the modification times matter for a folder of [Normal] only
InitTimes(rec) ==
    {[e \in Timed |-> IF e \in S THEN 1 ELSE 0] :
        S \in IF A \in Range(rec.normal) THEN {{}, {C}, {E}, {G}} ELSE {{}}}

Init ==
    /\ ini \in InitRecords
    /\ fs \in InitDest
    /\ mtime \in InitTimes(ini)
    /\ today = 0
    /\ always = << >> /\ backup = NoPath /\ base_folders = << >> /\ checked = FALSE
    /\ excluded = << >> /\ individual = << >> /\ last_backup_folder = NoLabel
    /\ last_date = NoDate /\ modified = FALSE /\ normal = << >>
    /\ this_backup_folder = NoLabel /\ verbose = FALSE
    /\ pc = "idle" /\ idx = 1 /\ todo = {} /\ b_no_tar = TRUE
    /\ err = {} /\ fails = 0 /\ ops = << >>
    /\ ini0 = ini /\ fs0 = fs /\ fails0 = 0 /\ dryrun = FALSE /\ visited = << >>
    /\ outcome = "None" /\ persisted = FALSE
    /\ reported = << >>

\* ---------------------------------------------------------------- helpers
\* an issued operation: its kind, the path it is issued for (the member for
\* an append to the archive of a base folder; a directory of the destination
\* is given as a one-component path) and whether it was executed or only
\* reported
Op(op, forp, exec) == [op |-> op, for |-> forp, exec |-> exec]

\* a command handed to pipe(): the tool runs, writes e to stderr and changes
\* the destination to fsOK, or to fsKO when it reports a genuine error
Pipe(op, forp, isTar, must, fsOK, fsKO) ==
    \E e \in Diags(isTar, must, fails < MaxFails) :
        /\ err' = e
        /\ fails' = IF Other \in e /\ ~must THEN fails + 1 ELSE fails
        /\ fs' = IF Other \in e THEN fsKO ELSE fsOK
        /\ ops' = Append(ops, Op(op, forp, TRUE))

\* if self.verbose: print(command) else: pipe(command)
Issue(op, forp, isTar, must, fsOK, fsKO) ==
    IF verbose
    THEN /\ ops' = Append(ops, Op(op, forp, FALSE))
         /\ UNCHANGED <<err, fails, fs>>
    ELSE Pipe(op, forp, isTar, must, fsOK, fsKO)

\* the command just issued made pipe() raise PipeError
Raised == ~verbose /\ PipeRaises(err')

\* except PipeError in __main__: backup.verbose = True, then backup = None
Caught ==
    /\ verbose' = TRUE
    /\ pc' = "del"
    /\ outcome' = "Failed"

\* _exit that leaves self.this_backup_folder as it is
ExitKeepingLabel ==
    /\ backup' = NoPath /\ checked' = FALSE /\ last_backup_folder' = NoLabel
    /\ last_date' = NoDate /\ modified' = FALSE /\ verbose' = FALSE
    /\ this_backup_folder' = this_backup_folder
    /\ pc' = "exit" /\ outcome' = "Fatal"
\* Backup._exit: the fields it resets, then exit()
Exit ==
    /\ backup' = NoPath /\ checked' = FALSE /\ last_backup_folder' = NoLabel
    /\ last_date' = NoDate /\ modified' = FALSE /\ verbose' = FALSE
    /\ this_backup_folder' = NoLabel
    /\ pc' = "exit" /\ outcome' = "Fatal"

\* --------------------------------------------------------------- __main__
\* backup = Backup(verbose): the assignments before the record is opened
StartRun(v) ==
    /\ pc = "idle"
    /\ always' = << >> /\ backup' = NoPath /\ base_folders' = << >> /\ checked' = FALSE
    /\ excluded' = << >> /\ individual' = << >> /\ last_backup_folder' = NoLabel
    /\ last_date' = NoDate /\ modified' = FALSE /\ normal' = << >>
    /\ this_backup_folder' = strftime(today)
    /\ verbose' = v
    /\ pc' = "load" /\ idx' = 1 /\ todo' = {} /\ b_no_tar' = TRUE
    /\ err' = {} /\ ops' = << >> /\ ini0' = ini /\ fs0' = fs
    /\ fails0' = fails /\ dryrun' = v /\ visited' = << >>
    /\ outcome' = "Running" /\ persisted' = FALSE /\ reported' = << >>
    /\ UNCHANGED <<ini, fs, env, fails>>

\* ---------------------------------------------------------------- __init__
\* open(BACKUP_INI) raises FileNotFoundError: _exit('backup.ini file created...')
LoadMissing ==
    /\ pc = "load" /\ ~ini.exists
    /\ Exit
    /\ UNCHANGED <<ini, fs, env, conf, idx, todo, b_no_tar, err, fails, ops, start,
                   persisted, reported, visited>>

\* the value of self.last_date after the line of [Backup date], if any
DateOf(line) == IF line # NoLabel THEN strptime(line) ELSE NoDate

\* the sections up to the line of [Backup folder]: [Base folders], and
\* [Backup date] when it stands before [Backup folder]
LoadHead ==
    /\ pc = "load" /\ ini.exists
    /\ last_date' = IF ini.destFirst THEN NoDate ELSE DateOf(ini.date)
    /\ last_backup_folder' = IF ini.destFirst THEN NoLabel ELSE ini.date
    /\ base_folders' = ini.base
    /\ backup' = ini.dest
    /\ IF ini.dest = NoPath
       THEN /\ pc' = "loadrest"
            /\ UNCHANGED <<fs, ops, todo>>
       ELSE IF ~fs.isdir
       THEN /\ pc' = "loadrest"
            /\ ops' = Append(ops, Op("mkdir", ini.dest, ~verbose))
            /\ fs' = IF verbose THEN fs ELSE [fs EXCEPT !.isdir = TRUE]
            /\ UNCHANGED todo
       ELSE /\ pc' = "cleanup"
            /\ todo' = fs.dirs \cup fs.plain
            /\ UNCHANGED <<fs, ops>>
    /\ UNCHANGED <<ini, env, always, checked, excluded, individual, modified, normal,
                   this_backup_folder, verbose, idx, b_no_tar, err, fails, start,
                   outcome, persisted, reported, visited>>

\* cleanup_drive without the exception for 'laptop'
StaleUnpinned(e) == e \in fs.dirs /\ e # last_backup_folder
\* cleanup_drive: the entries of the listing that get rm -r
Stale(e) == e \in fs.dirs /\ e # last_backup_folder /\ e # Pinned

\* cleanup_drive: one rm -r, handed to pipe() whatever self.verbose is; a
\* PipeError leaves __init__ and the process uncaught
CleanupStep ==
    /\ pc = "cleanup"
    /\ \E e \in todo :
        /\ Stale(e)
        /\ Pipe("prune", <<e>>, FALSE, FALSE, RmR(fs, e), fs)
        /\ todo' = todo \ {e}
    /\ IF PipeRaises(err')
       THEN pc' = "exit" /\ outcome' = "Failed"
       ELSE pc' = "cleanup" /\ outcome' = outcome
    /\ UNCHANGED <<ini, env, fields, idx, b_no_tar, start, persisted, reported, visited>>

\* cleanup_drive: the listing holds nothing more to delete
CleanupDone ==
    /\ pc = "cleanup"
    /\ \A e \in todo : ~Stale(e)
    /\ pc' = "loadrest" /\ todo' = {}
    /\ UNCHANGED <<ini, fs, env, fields, idx, b_no_tar, err, fails, ops, start,
                   outcome, persisted, reported, visited>>

\* the sections after the line of [Backup folder]: [Always], [Excluded],
\* [Normal], [Individual files], and [Backup date] when it stands after
\* [Backup folder]; then the check of self.backup
LoadRest ==
    /\ pc = "loadrest"
    /\ always' = ini.always /\ excluded' = ini.excluded
    /\ normal' = ini.normal /\ individual' = ini.individual
    /\ IF backup = NoPath
       THEN Exit
       ELSE /\ pc' = "go"
            /\ last_date' = DateOf(ini.date)
            /\ last_backup_folder' = ini.date
            /\ UNCHANGED <<backup, checked, modified, verbose, this_backup_folder,
                           outcome>>
    /\ UNCHANGED <<ini, fs, env, base_folders, idx, todo, b_no_tar, err, fails, ops,
                   start, persisted, reported, visited>>

\* -------------------------------------------------------------- _check_new
\* _check_new without the test of self.excluded
NewInIgnoringExcluded(listing) ==
    SelectSeq(listing, LAMBDA local_folder :
        /\ IsDir(local_folder)
        /\ local_folder \notin Range(always)
        /\ local_folder \notin Range(normal))
\* the inner loop of _check_new over one listing
NewIn(listing) ==
    SelectSeq(listing, LAMBDA local_folder :
        /\ IsDir(local_folder)
        /\ local_folder \notin Range(always)
        /\ local_folder \notin Range(excluded)
        /\ local_folder \notin Range(normal))
\* the list new built by _check_new over the base folders from index i on
RECURSIVE NewFolders(_, _)
NewFolders(i, ord) ==
    IF i > Len(base_folders) THEN << >>
    ELSE NewIn(ListdirOrd(base_folders[i], ord)) \o NewFolders(i + 1, ord)

\* go(): self._check_new(), then return when self.checked
CheckNew ==
    /\ pc = "go"
    /\ \E ord \in Perms({e \in SrcEntries : Parent(e) \in Range(base_folders)}) :
        LET new == NewFolders(1, ord) IN
        /\ checked' = (new # << >>)
        /\ reported' = new
        /\ IF new # << >>
           THEN pc' = "del" /\ outcome' = "Aborted"
           ELSE pc' = "mkgen" /\ outcome' = outcome
    /\ UNCHANGED <<ini, fs, env, conf, backup, last_backup_folder, last_date, modified,
                   this_backup_folder, verbose, idx, todo, b_no_tar, err, fails, ops,
                   start, persisted, visited>>

\* go(): create the directory of the current generation if it is missing
EnsureGeneration ==
    /\ pc = "mkgen"
    /\ IF this_backup_folder \in fs.dirs
       THEN UNCHANGED <<fs, ops>>
       ELSE /\ ops' = Append(ops, Op("mkdir", <<this_backup_folder>>, ~verbose))
            /\ fs' = IF verbose THEN fs ELSE [fs EXCEPT !.dirs = @ \cup {this_backup_folder}]
    /\ pc' = "base" /\ idx' = 1
    /\ UNCHANGED <<ini, env, fields, todo, b_no_tar, err, fails, start, outcome,
                   persisted, reported, visited>>

\* ------------------------------------------------------------ _make_tarball
\* go(): the next base folder; _make_tarball up to its listing
BaseBegin ==
    /\ pc = "base" /\ idx <= Len(base_folders)
    /\ todo' = {e \in SrcEntries : Parent(e) = base_folders[idx]}
    /\ b_no_tar' = TRUE
    /\ pc' = "tarball"
    /\ UNCHANGED <<ini, fs, env, fields, idx, err, fails, ops, start, outcome,
                   persisted, reported, visited>>

\* go(): the base folders are done; self.modified = True before the always loop
BaseDone ==
    /\ pc = "base" /\ idx > Len(base_folders)
    /\ modified' = TRUE
    /\ pc' = "always" /\ idx' = 1
    /\ UNCHANGED <<ini, fs, env, conf, backup, checked, last_backup_folder, last_date,
                   this_backup_folder, verbose, todo, b_no_tar, err, fails, ops, start,
                   outcome, persisted, reported, visited>>

\* _make_tarball without the test of the leading dot
AppendedWithHidden(local_file) == ~IsDir(local_file)
\* _make_tarball: the entries of the listing that are appended
Appended(local_file) == ~IsDir(local_file) /\ BaseName(local_file)[1] # "."

\* _make_tarball: tar -rf of one entry of the base folder
TarballAppend ==
    /\ pc = "tarball"
    /\ \E local_file \in todo :
        /\ Appended(local_file)
        /\ Issue("append", local_file, TRUE, this_backup_folder \notin fs.dirs,
                 TarAppend(fs, this_backup_folder, BackupFileName(base_folders[idx]), local_file),
                 fs)
        /\ todo' = todo \ {local_file}
    /\ b_no_tar' = FALSE
    /\ IF Raised
       THEN Caught
       ELSE UNCHANGED <<verbose, pc, outcome>>
    /\ UNCHANGED <<ini, env, conf, backup, checked, last_backup_folder, last_date,
                   modified, this_backup_folder, idx, start, persisted, reported, visited>>

\* _make_tarball: the listing is exhausted; return when no tar was made
TarballEnd ==
    /\ pc = "tarball"
    /\ \A local_file \in todo : ~Appended(local_file)
    /\ todo' = {}
    /\ IF b_no_tar
       THEN pc' = "base" /\ idx' = idx + 1
       ELSE pc' = "gzip" /\ idx' = idx
    /\ UNCHANGED <<ini, fs, env, fields, b_no_tar, err, fails, ops, start, outcome,
                   persisted, reported, visited>>

\* _make_tarball: gzip -c of the tar of the base folder
TarballGzip ==
    /\ pc = "gzip"
    /\ LET base == BackupFileName(base_folders[idx]) IN
       Issue("compress", base_folders[idx], FALSE,
             ~Has(fs, this_backup_folder, base, "tar"),
             Gzip(fs, this_backup_folder, base),
             GzipFailed(fs, this_backup_folder, base))
    /\ IF Raised
       THEN Caught
       ELSE /\ pc' = "rmtar"
            /\ UNCHANGED <<verbose, outcome>>
    /\ UNCHANGED <<ini, env, conf, backup, checked, last_backup_folder, last_date,
                   modified, this_backup_folder, idx, todo, b_no_tar, start, persisted,
                   reported, visited>>

\* _make_tarball: rm of the tar of the base folder
TarballRm ==
    /\ pc = "rmtar"
    /\ LET base == BackupFileName(base_folders[idx]) IN
       Issue("delete", base_folders[idx], FALSE,
             ~Has(fs, this_backup_folder, base, "tar"),
             Rm(fs, this_backup_folder, base), fs)
    /\ IF Raised
       THEN Caught /\ idx' = idx
       ELSE /\ pc' = "base" /\ idx' = idx + 1
            /\ UNCHANGED <<verbose, outcome>>
    /\ UNCHANGED <<ini, env, conf, backup, checked, last_backup_folder, last_date,
                   modified, this_backup_folder, todo, b_no_tar, start, persisted,
                   reported, visited>>

\* ------------------------------------------------------------------ _backup
\* _backup that creates a fresh archive whatever self.modified is
BackupFolderAlwaysCreate(path, m) ==
    Issue("create", path, TRUE, this_backup_folder \notin fs.dirs,
          TarCreate(fs, this_backup_folder, BackupFileName(path), path), fs)
\* _backup(path) entered with self.modified = m
BackupFolder(path, m) ==
    LET backup_file_name == BackupFileName(path) IN
    IF m
    THEN Issue("create", path, TRUE, this_backup_folder \notin fs.dirs,
               TarCreate(fs, this_backup_folder, backup_file_name, path), fs)
    ELSE IF last_backup_folder # NoLabel /\ last_backup_folder # this_backup_folder
    THEN Issue("relocate", path, FALSE,
               \/ ~Has(fs, last_backup_folder, backup_file_name, "targz")
               \/ this_backup_folder \notin fs.dirs,
               Mv(fs, last_backup_folder, this_backup_folder, backup_file_name), fs)
    ELSE UNCHANGED <<err, fails, fs, ops>>

\* go(): one folder of self.always
AlwaysStep ==
    /\ pc = "always" /\ idx <= Len(always)
    /\ BackupFolder(always[idx], modified)
    /\ IF Raised
       THEN Caught /\ idx' = idx
       ELSE /\ idx' = idx + 1
            /\ UNCHANGED <<verbose, pc, outcome>>
    /\ UNCHANGED <<ini, env, conf, backup, checked, last_backup_folder, last_date,
                   modified, this_backup_folder, todo, b_no_tar, start, persisted,
                   reported, visited>>

AlwaysDone ==
    /\ pc = "always" /\ idx > Len(always)
    /\ pc' = "normal" /\ idx' = 1
    /\ UNCHANGED <<ini, fs, env, fields, todo, b_no_tar, err, fails, ops, start,
                   outcome, persisted, reported, visited>>

\* the loop over self.normal without self.modified = False
NormalStepNoReset ==
    /\ pc = "normal" /\ idx <= Len(normal)
    /\ \E ord \in Perms(Descendants(normal[idx])) :
        /\ modified' = CheckFolders(normal[idx], modified, last_date, mtime, ord)
        /\ BackupFolder(normal[idx], modified')
    /\ visited' = Append(visited, [path |-> normal[idx], modified |-> modified'])
    /\ IF Raised
       THEN Caught /\ idx' = idx
       ELSE /\ idx' = idx + 1
            /\ UNCHANGED <<verbose, pc, outcome>>
    /\ UNCHANGED <<ini, env, conf, backup, checked, last_backup_folder, last_date,
                   this_backup_folder, todo, b_no_tar, start, persisted, reported>>
\* go(): one folder of self.normal: reset self.modified, _check_folders, _backup
NormalStep ==
    /\ pc = "normal" /\ idx <= Len(normal)
    /\ \E ord \in Perms(Descendants(normal[idx])) :
        /\ modified' = CheckFolders(normal[idx], FALSE, last_date, mtime, ord)
        /\ BackupFolder(normal[idx], modified')
    /\ visited' = Append(visited, [path |-> normal[idx], modified |-> modified'])
    /\ IF Raised
       THEN Caught /\ idx' = idx
       ELSE /\ idx' = idx + 1
            /\ UNCHANGED <<verbose, pc, outcome>>
    /\ UNCHANGED <<ini, env, conf, backup, checked, last_backup_folder, last_date,
                   this_backup_folder, todo, b_no_tar, start, persisted, reported>>

NormalDone ==
    /\ pc = "normal" /\ idx > Len(normal)
    /\ pc' = "indiv" /\ idx' = 1
    /\ UNCHANGED <<ini, fs, env, fields, todo, b_no_tar, err, fails, ops, start,
                   outcome, persisted, reported, visited>>

\* --------------------------------------------------------- individual files
\* go(): tar -rf of one individual file into individual.tar
IndividualAppend ==
    /\ pc = "indiv" /\ idx <= Len(individual)
    /\ Issue("append", Individual, TRUE, this_backup_folder \notin fs.dirs,
             TarAppend(fs, this_backup_folder, Individual, individual[idx]), fs)
    /\ IF Raised
       THEN Caught /\ idx' = idx
       ELSE /\ idx' = idx + 1
            /\ UNCHANGED <<verbose, pc, outcome>>
    /\ UNCHANGED <<ini, env, conf, backup, checked, last_backup_folder, last_date,
                   modified, this_backup_folder, todo, b_no_tar, start, persisted,
                   reported, visited>>

\* go(): gzip -c of individual.tar, issued whether or not a file was appended
IndividualGzip ==
    /\ pc = "indiv" /\ idx > Len(individual)
    /\ Issue("compress", Individual, FALSE,
             ~Has(fs, this_backup_folder, Individual, "tar"),
             Gzip(fs, this_backup_folder, Individual),
             GzipFailed(fs, this_backup_folder, Individual))
    /\ IF Raised
       THEN Caught
       ELSE /\ pc' = "indrm"
            /\ UNCHANGED <<verbose, outcome>>
    /\ UNCHANGED <<ini, env, conf, backup, checked, last_backup_folder, last_date,
                   modified, this_backup_folder, idx, todo, b_no_tar, start, persisted,
                   reported, visited>>

\* go(): rm of individual.tar; go() returns and __main__ drops the object
IndividualRm ==
    /\ pc = "indrm"
    /\ Issue("delete", Individual, FALSE,
             ~Has(fs, this_backup_folder, Individual, "tar"),
             Rm(fs, this_backup_folder, Individual), fs)
    /\ IF Raised
       THEN Caught
       ELSE /\ pc' = "del" /\ outcome' = "Completed"
            /\ UNCHANGED verbose
    /\ UNCHANGED <<ini, env, conf, backup, checked, last_backup_folder, last_date,
                   modified, this_backup_folder, idx, todo, b_no_tar, start, persisted,
                   reported, visited>>

\* ------------------------------------------------------------------ __del__
\* the record __del__ writes from the fields of the object
Written ==
    [exists |-> TRUE, destFirst |-> FALSE,
     date |-> this_backup_folder, base |-> base_folders,
     dest |-> backup, always |-> always, excluded |-> excluded, normal |-> normal,
     individual |-> individual]

\* __del__ without the test of self.checked
DelIgnoringChecked ==
    /\ pc \in {"del", "exit"}
    /\ IF verbose
       THEN UNCHANGED <<ini, persisted>>
       ELSE ini' = Written /\ persisted' = TRUE
    /\ pc' = "idle"
    /\ UNCHANGED <<fs, env, fields, idx, todo, b_no_tar, err, fails, ops, start,
                   outcome, reported, visited>>
\* __del__: runs when __main__ drops the object, and when the interpreter
\* finalizes an object left behind by an exception raised in __init__
Del ==
    /\ pc \in {"del", "exit"}
    /\ IF checked \/ verbose
       THEN UNCHANGED <<ini, persisted>>
       ELSE ini' = Written /\ persisted' = TRUE
    /\ pc' = "idle"
    /\ UNCHANGED <<fs, env, fields, idx, todo, b_no_tar, err, fails, ops, start,
                   outcome, reported, visited>>

\* the interpreter exits on the exception without calling __del__ (the
\* language does not guarantee finalizers at interpreter exit)
NoDel ==
    /\ pc = "exit"
    /\ pc' = "idle"
    /\ UNCHANGED <<ini, fs, env, fields, idx, todo, b_no_tar, err, fails, ops, start,
                   outcome, persisted, reported, visited>>

\* ------------------------------------------------------------- environment
\* the next process is started on a later day
NextDay ==
    /\ pc = "idle" /\ today < MaxDay
    /\ today' = today + 1
    /\ UNCHANGED <<ini, fs, mtime, fields, pc, idx, todo, b_no_tar, err, fails, ops,
                   start, outcome, persisted, reported, visited>>

\* the user edits the record of an earlier backup and leaves the
\* [Backup folder] section before the [Backup date] section; what was
\* recorded about the last run is dropped, the record being no longer its
RunForgotten ==
    /\ ini0' = ini' /\ fs0' = fs /\ fails0' = fails /\ dryrun' = FALSE
    /\ ops' = << >> /\ visited' = << >> /\ reported' = << >>
    /\ outcome' = "None" /\ persisted' = FALSE /\ err' = {}
Reorder ==
    /\ pc = "idle"
    /\ ini.exists /\ ini.date # NoLabel /\ ini.dest # NoPath /\ ~ini.destFirst
    /\ ini' = [ini EXCEPT !.destFirst = TRUE]
    /\ RunForgotten
    /\ UNCHANGED <<fs, env, fields, pc, idx, todo, b_no_tar, fails>>

\* the user edits the record and moves a folder from [Excluded] to [Normal]
Classify ==
    /\ pc = "idle"
    /\ ini.exists /\ A \in Range(ini.excluded)
    /\ ini' = [ini EXCEPT !.excluded = SelectSeq(@, LAMBDA p : p # A),
                          !.normal = Append(@, A)]
    /\ RunForgotten
    /\ UNCHANGED <<fs, env, fields, pc, idx, todo, b_no_tar, fails>>

Next ==
    \/ \E v \in BOOLEAN : StartRun(v)
    \/ LoadMissing \/ LoadHead \/ CleanupStep \/ CleanupDone \/ LoadRest
    \/ CheckNew \/ EnsureGeneration
    \/ BaseBegin \/ BaseDone \/ TarballAppend \/ TarballEnd \/ TarballGzip \/ TarballRm
    \/ AlwaysStep \/ AlwaysDone \/ NormalStep \/ NormalDone
    \/ IndividualAppend \/ IndividualGzip \/ IndividualRm
    \/ Del \/ NoDel
    \/ NextDay \/ Reorder \/ Classify

Spec == Init /\ [][Next]_vars

\* ================================================================= claims
ArchiveOps == {"create", "append", "compress", "relocate", "delete"}
Issued(kinds) == {i \in 1..Len(ops) : ops[i].op \in kinds}
Count(op, p) == Cardinality({i \in 1..Len(ops) : ops[i].op = op /\ ops[i].for = p})
Ended == pc = "idle" /\ outcome # "None"

\* C1: a run in which an executor operation reported a genuine failure
\* (pipe raised PipeError, in any phase) leaves the persisted record exactly
\* as it was before the run.
C1_NoPersistOnFailure == (Ended /\ outcome = "Failed") => ini = ini0

\* C2: in dry-run mode no command is executed, nothing under the destination
\* is created, moved or deleted, and the record is not persisted (stated for
\* the runs that load a destination).
C2_DryRunTouchesNothing ==
    (dryrun /\ outcome # "Fatal") =>
              /\ \A i \in 1..Len(ops) : ~ops[i].exec
              /\ fs = fs0
              /\ ini = ini0

\* C3 (as stated): when the loaded configuration has no destination the
\* process ends without writing the record and without filesystem mutation.
C3_FatalWritesNothing == (Ended /\ outcome = "Fatal") => (ini = ini0 /\ fs = fs0)

\* C3 (amended): when the loaded configuration has no destination the process
\* ends without any operation and without filesystem mutation; the record is
\* either untouched or rewritten from the loaded sections without a date.
C3_FatalRewritesUndated ==
    outcome = "Fatal" =>
        /\ fs = fs0
        /\ ops = << >>
        /\ \/ ini = ini0
           \/ ini = [ini0 EXCEPT !.exists = TRUE, !.date = NoLabel]
C3_Witness ==
    /\ Ended /\ outcome = "Fatal"
    /\ ini0.exists /\ ini0.date # NoLabel
    /\ persisted /\ ini.date = NoLabel

\* C4: when the scanner finds an unclassified subfolder the run ends Aborted:
\* the current generation directory is not created, no archive operation is
\* issued and the record is not persisted.
C4_AbortOnNewFolder ==
    reported # << >> =>
        /\ outcome = "Aborted"
        /\ Issued(ArchiveOps) = {}
        /\ \A i \in 1..Len(ops) : ~(ops[i].op = "mkdir" /\ ops[i].for = <<this_backup_folder>>)
        /\ fs.dirs \subseteq fs0.dirs
        /\ ini = ini0 /\ ~persisted
C4_Witness == Ended /\ reported # << >> /\ ~dryrun /\ Len(ini0.normal) > 0

\* C5 (as stated): a run aborted by new-folder detection has deleted or moved
\* no directory and no archive under the destination.
C5_AbortBeforeAnyDeletion ==
    outcome = "Aborted" => (fs.dirs = fs0.dirs /\ fs.files = fs0.files)

\* C5 (amended): a run aborted by new-folder detection has moved no archive,
\* and has deleted only what pruning at load deleted: subdirectories for
\* which cleanup_drive issued rm -r, never 'laptop', with their contents.
C5_AbortAfterPruningOnly ==
    outcome = "Aborted" =>
        /\ \A i \in 1..Len(ops) :
              ops[i].op = "prune" \/ (ops[i].op = "mkdir" /\ ops[i].for = backup)
        /\ fs.dirs \subseteq fs0.dirs
        /\ \A d \in fs0.dirs \ fs.dirs : d # Pinned /\ Count("prune", <<d>>) = 1
        /\ fs.files = {x \in fs0.files : x.dir \in fs.dirs}
C5_Witness == outcome = "Aborted" /\ "old" \in fs0.dirs /\ "old" \notin fs.dirs
                 /\ Pinned \in fs.dirs

\* C6: a first run (destination configured, no prior date, one normal folder,
\* no new folders, no individual files, all tools working) ends Completed with
\* the folder's archive in today's generation and the record dated today.
FirstRunScenario ==
    /\ Ended /\ ~dryrun /\ fails = fails0
    /\ ini0.exists /\ ini0.date = NoLabel /\ ini0.dest # NoPath
    /\ Len(ini0.normal) = 1 /\ ini0.always = << >> /\ ini0.individual = << >>
    /\ reported = << >> /\ outcome # "Aborted"
C6_FirstRunCompletes ==
    FirstRunScenario =>
        /\ outcome = "Completed"
        /\ Has(fs, this_backup_folder, BackupFileName(ini0.normal[1]), "targz")
        /\ ini.date = this_backup_folder

\* C7: when no individual files are configured, no append to, compression of
\* or deletion of the individual-files bundle is issued.
C7_NoBundleOpsWithoutFiles ==
    individual = << >> => \A i \in 1..Len(ops) : ops[i].for # Individual

\* the folder _check_folders examined last, and the date it compared with
LastVisited == visited[Len(visited)]
Newer(S) == \E e \in S : MTime(mtime, e) > last_date

\* C8 (as stated): isModified is true whenever some nested entry, file or
\* directory at any depth, is newer than the last backup date, in any order.
C8_AnyNewerEntryIsModified ==
    (visited # << >> /\ last_date # NoDate /\ Newer(Descendants(LastVisited.path)))
        => LastVisited.modified

\* C8 (amended): isModified is true whenever some nested directory, at any
\* depth, is newer than the last backup date, in any traversal order.
C8_AnyNewerDirectoryIsModified ==
    (visited # << >> /\ last_date # NoDate
        /\ Newer(Descendants(LastVisited.path) \cap SrcDirs))
        => (LastVisited.modified /\ modified)
C8_Witness ==
    /\ visited # << >> /\ last_date # NoDate
    /\ LastVisited.modified
    /\ MTime(mtime, E) > last_date /\ MTime(mtime, C) <= last_date

\* C9: the archive name is injective over the configured tracked paths: two
\* distinct paths among base, always and normal folders get different names.
Tracked == Range(base_folders) \cup Range(always) \cup Range(normal)
C9_NamingInjective ==
    \A p, q \in Tracked : p # q => BackupFileName(p) # BackupFileName(q)

\* C10: for each normal folder handed to _backup: if it is modified or there
\* is no previous generation, exactly one create and no relocate is issued for
\* it; if it is unmodified and the previous generation's label differs from the
\* current one, exactly one relocate and no create; folders not reached get none.
C10_NormalFolderDecision ==
    /\ \A i \in 1..Len(visited) :
        LET v == visited[i] IN
        /\ (v.modified \/ last_backup_folder = NoLabel) =>
              (Count("create", v.path) = 1 /\ Count("relocate", v.path) = 0)
        /\ (~v.modified /\ last_backup_folder # NoLabel
               /\ last_backup_folder # this_backup_folder) =>
              (Count("relocate", v.path) = 1 /\ Count("create", v.path) = 0)
    /\ \A p \in Range(normal) \ {visited[i].path : i \in 1..Len(visited)} :
        Count("create", p) = 0 /\ Count("relocate", p) = 0
C10_Witness ==
    /\ ~dryrun /\ outcome = "Completed"
    /\ \E i \in 1..Len(visited) :
        ~visited[i].modified /\ Count("relocate", visited[i].path) = 1
    /\ \E i \in 1..Len(visited) :
        visited[i].modified /\ Count("create", visited[i].path) = 1


\* cleanup_drive has gone through the whole listing of an existing destination
PrunedAtLoad == pc = "loadrest" /\ ini0.dest # NoPath /\ fs0.isdir
\* the previous generation's label recorded in the record, and the pinned name
Keep == {ini0.date, Pinned}

\* C11: pruning at load deletes exactly the subdirectories of the destination
\* named neither as the previous generation recorded in the record nor
\* 'laptop'; plain files are untouched; pruning again changes nothing.
C11_PruneKeepsPreviousAndPinned ==
    PrunedAtLoad =>
        /\ fs.dirs = fs0.dirs \cap Keep
        /\ fs.plain = fs0.plain
        /\ fs.files = {x \in fs0.files : x.dir \in Keep}
        /\ {d \in fs.dirs : d \notin Keep} = {}

\* C12: an executed command is reported as a failure exactly when its stderr
\* holds something other than the notice, the notice being present or not.
C12_FailureIffOtherDiagnostic ==
    outcome \in {"Running", "Failed"} => (Other \in err <=> outcome = "Failed")


\* _check_new has run in this process
Scanned == pc \in {"mkgen", "base", "tarball", "gzip", "rmtar", "always", "normal",
                   "indiv", "indrm", "del"}
\* the immediate entries of the base folders that are directories and are
\* listed in none of the three sections
ExpectedNew ==
    {e \in SrcEntries : /\ \E i \in 1..Len(base_folders) : Parent(e) = base_folders[i]
                        /\ e \in SrcDirs
                        /\ e \notin Range(always) \cup Range(excluded) \cup Range(normal)}

\* C13: the new paths reported by the scanner are exactly the immediate
\* subdirectories of the base folders listed in none of always, excluded and
\* normal, each once; scanning again, in any listing order, gives the same set.
C13_ScannerReportsExactlyNew ==
    /\ Scanned =>
        /\ Range(reported) = ExpectedNew
        /\ Len(reported) = Cardinality(ExpectedNew)
    /\ (pc = "mkgen" \/ (pc = "del" /\ outcome = "Aborted")) =>
        \A ord \in Perms({e \in SrcEntries : Parent(e) \in Range(base_folders)}) :
            Range(NewFolders(1, ord)) = Range(reported)
C13_Witness ==
    /\ pc = "del" /\ outcome = "Aborted"
    /\ excluded # << >> /\ Len(reported) = 1

\* the entries of base folder b that are no directories and not hidden
Eligible(b) ==
    {e \in SrcEntries : Parent(e) = b /\ e \notin SrcDirs /\ Head(BaseName(e)) # "."}
\* the members for which an append to the archive of base folder b was issued
AppendedTo(b) ==
    {ops[i].for : i \in {j \in Issued({"append"}) :
                            ops[j].for # Individual /\ Parent(ops[j].for) = b}}
\* the loop of _make_tarball over the listing of base_folders[i] has ended
ListingDone(i) ==
    \/ pc = "base" /\ i < idx
    \/ pc \in {"gzip", "rmtar"} /\ i <= idx
    \/ pc \in {"always", "normal", "indiv", "indrm"}
    \/ outcome = "Completed"

\* C19: for each base folder the appends issued are, once each, exactly the
\* immediate entries that are no directories and whose name has no leading
\* dot; with no such entry neither compress nor delete is issued for it.
C19_BaseFolderArchiveContents ==
    \A i \in 1..Len(base_folders) :
        LET b == base_folders[i] IN
        /\ AppendedTo(b) \subseteq Eligible(b)
        /\ \A e \in AppendedTo(b) : Count("append", e) = 1
        /\ ListingDone(i) => AppendedTo(b) = Eligible(b)
        /\ Eligible(b) = {} => (Count("compress", b) = 0 /\ Count("delete", b) = 0)
C19_Witness ==
    /\ outcome = "Completed" /\ ~dryrun
    /\ Members(fs, this_backup_folder, BackupFileName(D), "targz") = {F}
    /\ AppendedTo(X) = {} /\ Count("compress", D) = 1 /\ Count("compress", X) = 0


\* C14: with no prior backup date every normal folder is found modified, with
\* or without subdirectories and whatever the verdict before it, and gets one
\* create and no relocate.
C14_FirstRunAllModified ==
    last_date = NoDate =>
        \A i \in 1..Len(visited) :
            /\ visited[i].modified
            /\ Count("create", visited[i].path) = 1
            /\ Count("relocate", visited[i].path) = 0
C14_Witness ==
    /\ last_date = NoDate /\ Len(visited) = 2
    /\ visited[1].path = A /\ visited[2].path = H
    /\ outcome = "Completed" /\ ~dryrun

\* C15: with a prior backup date, a normal folder whose tree holds no entry
\* newer than that date is found unmodified, whatever the verdicts of the
\* folders processed before it.
C15_NothingNewerIsUnmodified ==
    last_date # NoDate =>
        \A i \in 1..Len(visited) :
            (\A e \in Descendants(visited[i].path) : MTime(mtime, e) <= last_date)
                => ~visited[i].modified
C15_Witness ==
    /\ last_date # NoDate
    /\ \E i \in 2..Len(visited) : visited[i - 1].modified /\ ~visited[i].modified

\* the archive names of the tracked folders of a record are pairwise distinct
NamesDistinct(rec) ==
    \A p, q \in Range(rec.base) \cup Range(rec.always) \cup Range(rec.normal) :
        p # q => BackupFileName(p) # BackupFileName(q)
\* generation gen of destination f holds an archive made of folder p
InGeneration(f, gen, p) ==
    \E x \in f.files : /\ x.dir = gen /\ x.ext = "targz"
                       /\ x.base = BackupFileName(p) /\ p \in x.members
\* some date-labelled generation of destination f holds an archive of folder p
Held(f, p) == \E i \in 1..Len(Labels) : InGeneration(f, Labels[i], p)

\* C16: after a run that reaches Completed (no dry run) the current generation
\* holds an archive of every always folder and every normal folder (stated
\* for histories without any tool error and without colliding archive names).
C16_GenerationSelfContained ==
    (outcome = "Completed" /\ ~dryrun /\ fails = 0 /\ NamesDistinct(ini0)) =>
        \A p \in Range(always) \cup Range(normal) :
            InGeneration(fs, this_backup_folder, p)

\* C17: no run destroys the only archive of a normal folder: when some
\* generation held it at the start of the run, some generation holds it at
\* the end (stated for records that carry a backup date, in the order __del__
\* writes them, and without colliding archive names).
C17_ArchiveSurvivesRun ==
    (Ended /\ ~ini0.destFirst /\ ini0.date # NoLabel /\ NamesDistinct(ini0)) =>
        \A p \in Range(ini0.normal) : Held(fs0, p) => Held(fs, p)

\* C18: once an executed command has failed (its stderr holds a genuine
\* diagnostic) the run issues no further command: the list of operations
\* stays as it is until the next run starts.
C18_NoOperationAfterFailure ==
    [][(ops # << >> /\ ops[Len(ops)].exec /\ Other \in err)
          => (ops' = ops \/ ops' = << >>)]_vars

====
